---- MODULE Spec2Model ----
(***************************************************************************)
(* Model of therapy_aid_tool/model_inference.py:                           *)
(*   preds_from_torch_results  - best prediction per class of one frame    *)
(*   BBox                      - bounding box geometry (corners, overlap,  *)
(*                               intersection, normalized IoU)             *)
(*                                                                         *)
(* Numbers.  Coordinates and confidences are multiples of one grid unit,   *)
(* so every subtraction, product and comparison of the code is exact.      *)
(* Widths and heights are even multiples, so that w / 2 is w \div 2.       *)
(* A quotient is kept as a fraction in lowest terms.                       *)
(*                                                                         *)
(* Python values that may be None, a list, a tuple or a number are tagged  *)
(* records ([type |-> ..., ...]) so that values of different Python types  *)
(* can be compared.                                                        *)
(***************************************************************************)
EXTENDS Integers, Sequences, FiniteSets, TLC

VARIABLES
    \* preds_from_torch_results
    results,      \* results.xywhn[0].tolist(): the frame's raw detection rows
    n_classes,    \* the n_classes argument
    pc,           \* "idle" | "start" | "partitioned" | "done" | "raised"
    preds_dict,   \* the local dictionary, class number -> tagged value
    ret,          \* the value returned to the caller (NoReturn until then)
    exc,          \* the exception that left the function ("None" if none)
    \* BBox
    A, B,         \* two constructed boxes
    op,           \* the last query made on the pair: A.<op>(B)
    out,          \* the value that query returned
    err           \* the exception that query raised ("None" if none)

vars == <<results, n_classes, pc, preds_dict, ret, exc, A, B, op, out, err>>
reduce_vars == <<results, n_classes, pc, preds_dict, ret, exc>>
bbox_vars == <<A, B, op, out, err>>

----------------------------------------------------------------------------
\* Bounds of the model.

\* longest list of detection rows of one frame
MaxLen == 2
\* largest n_classes; class numbers of rows range over -1 .. MaxClasses
MaxClasses == 2
\* confidences of rows range over 0 .. MaxConf grid units
MaxConf == 1
\* box coordinates range over 0 .. GridMax grid units (GridMax units = 1.0)
GridMax == 4

----------------------------------------------------------------------------
\* Python values.

py_None == [type |-> "NoneType"]
py_list(s) == [type |-> "list", items |-> s]
py_tuple(s) == [type |-> "tuple", items |-> s]
py_float(v) == [type |-> "float", val |-> v]
py_bool(b) == [type |-> "bool", val |-> b]
NoReturn == [type |-> "noreturn"]

Range(s) == {s[j] : j \in 1..Len(s)}

\* truth value of None and of a list, as `if self.xywhc:` takes it
truthy(v) == v.type = "list" /\ Len(v.items) > 0

RECURSIVE gcd(_, _)
gcd(a, b) == IF b = 0 THEN a ELSE gcd(b, a % b)

\* a / b for b # 0, as a fraction in lowest terms with a positive denominator
quotient(a, b) ==
    LET s == IF b < 0 THEN -1 ELSE 1
        aa == IF a < 0 THEN -a ELSE a
        bb == IF b < 0 THEN -b ELSE b
        g == gcd(aa, bb)
    IN [type |-> "float", num |-> (s * a) \div g, den |-> bb \div g]

py_number(v) == [type |-> "float", num |-> v, den |-> 1]

Max(a, b) == IF a >= b THEN a ELSE b
Min(a, b) == IF a <= b THEN a ELSE b

----------------------------------------------------------------------------
\* preds_from_torch_results

\* float("-inf"): below every confidence and coordinate
NegInf == -1

\* [float("-inf")] * 5
Sentinel == [j \in 1..5 |-> NegInf]

\* {c: [[float("-inf")] * 5] for c in range(n_classes)}
template(n) == [c \in 0..(n - 1) |-> py_list(<<Sentinel>>)]

\* `for *xywhc, c in preds: preds_dict[c].append(xywhc)` for one row
append_pred_drop(d, row) ==
    IF Len(row) = 0
    THEN [exc |-> "ValueError", dict |-> d]
    ELSE LET c == row[Len(row)]
             xywhc == SubSeq(row, 1, Len(row) - 1)
         IN IF c \notin DOMAIN d
            THEN [exc |-> "None", dict |-> d]
            ELSE [exc |-> "None",
                  dict |-> [d EXCEPT ![c] = py_list(Append(@.items, xywhc))]]

append_pred(d, row) ==
    IF Len(row) = 0
    THEN [exc |-> "ValueError", dict |-> d]
    ELSE LET c == row[Len(row)]
             xywhc == SubSeq(row, 1, Len(row) - 1)
         IN IF c \notin DOMAIN d
            THEN [exc |-> "KeyError", dict |-> d]
            ELSE [exc |-> "None",
                  dict |-> [d EXCEPT ![c] = py_list(Append(@.items, xywhc))]]

\* the whole loop of lines 81-82, from row j on; stops at the first exception
RECURSIVE partition(_, _, _)
partition(d, preds, j) ==
    IF j > Len(preds)
    THEN [exc |-> "None", dict |-> d]
    ELSE LET r == append_pred(d, preds[j])
         IN IF r.exc # "None" THEN r ELSE partition(r.dict, preds, j + 1)

\* lambda x: x[-1]
key(x) == x[Len(x)]

\* one step of a stable ascending sort: e goes after every element whose key
\* is not greater than its own
insert_unstable(sorted_rest, e) ==
    LET k == Cardinality({j \in 1..Len(sorted_rest) : key(sorted_rest[j]) < key(e)})
    IN SubSeq(sorted_rest, 1, k) \o <<e>> \o SubSeq(sorted_rest, k + 1, Len(sorted_rest))

insert(sorted_rest, e) ==
    LET k == Cardinality({j \in 1..Len(sorted_rest) : key(sorted_rest[j]) <= key(e)})
    IN SubSeq(sorted_rest, 1, k) \o <<e>> \o SubSeq(sorted_rest, k + 1, Len(sorted_rest))

\* sorted(bucket, key=lambda x: x[-1])
RECURSIVE sorted(_)
sorted(s) ==
    IF Len(s) = 0 THEN <<>>
    ELSE insert(sorted(SubSeq(s, 1, Len(s) - 1)), s[Len(s)])

\* float("-inf") in preds_dict[c]
has_neg_inf_wrong(best) == (0 - NegInf) \in Range(best)

has_neg_inf(best) == NegInf \in Range(best)

\* lines 86-89 for one class: the last of the sorted bucket, None if it is
\* still the template row
best_of(bucket) ==
    LET best == sorted(bucket)[Len(bucket)]
    IN IF has_neg_inf(best) THEN py_None ELSE py_list(best)

\* the key of an empty row raises IndexError
sort_raises(d) == \E c \in DOMAIN d : \E j \in 1..Len(d[c].items) : Len(d[c].items[j]) = 0

\* the loop of lines 85-89 over every class
select_best(d) == [c \in DOMAIN d |-> best_of(d[c].items)]

\* list(preds_dict.items())
items(d, n) == [j \in 1..n |-> <<j - 1, d[j - 1]>>]

\* lines 75-82
Partition ==
    /\ pc = "start"
    /\ LET r == partition(template(n_classes), results, 1)
       IN /\ preds_dict' = r.dict
          /\ exc' = r.exc
          /\ pc' = IF r.exc = "None" THEN "partitioned" ELSE "raised"
    /\ UNCHANGED <<results, n_classes, ret>>
    /\ UNCHANGED bbox_vars

\* lines 85-91
SelectBest ==
    /\ pc = "partitioned"
    /\ IF sort_raises(preds_dict)
       THEN /\ exc' = "IndexError"
            /\ pc' = "raised"
            /\ UNCHANGED <<preds_dict, ret>>
       ELSE /\ preds_dict' = select_best(preds_dict)
            /\ ret' = py_list(items(preds_dict', n_classes))
            /\ pc' = "done"
            /\ UNCHANGED exc
    /\ UNCHANGED <<results, n_classes>>
    /\ UNCHANGED bbox_vars

----------------------------------------------------------------------------
\* BBox

\* BBox.create_corners applied to the fields __init__ has set
create_corners(cls, xywhc) ==
    IF truthy(xywhc)
    THEN LET x == xywhc.items[1]
             y == xywhc.items[2]
             w == xywhc.items[3]
             h == xywhc.items[4]
             conf == xywhc.items[5]
         IN [cls |-> cls, xywhc |-> xywhc,
             x |-> py_float(x), y |-> py_float(y), w |-> py_float(w),
             h |-> py_float(h), conf |-> py_float(conf),
             x1 |-> py_float(x - (w \div 2)), x2 |-> py_float(x + (w \div 2)),
             y1 |-> py_float(y - (h \div 2)), y2 |-> py_float(y + (h \div 2))]
    ELSE [cls |-> cls, xywhc |-> xywhc,
          x |-> py_None, y |-> py_None, w |-> py_None, h |-> py_None,
          conf |-> py_None,
          \* `self.x1 = None,` assigns the one-element tuple (None,)
          x1 |-> py_tuple(<<py_None>>), x2 |-> py_tuple(<<py_None>>),
          y1 |-> py_tuple(<<py_None>>), y2 |-> py_tuple(<<py_None>>)]

\* BBox.__init__(pred), pred = (cls, xywhc)
BBox(pred) == create_corners(pred[1], pred[2])

\* BBox.__bool__
bool(self) == self.conf # py_None

\* BBox.rectangular_area
rectangular_area(x1, x2, y1, y2) == (x2 - x1) * (y2 - y1)

\* BBox.intersection, for boxes whose corners are numbers
intersection_abs(self, other) ==
    LET x1 == Max(self.x1.val, other.x1.val)
        y1 == Max(self.y1.val, other.y1.val)
        x2 == Min(self.x2.val, other.x2.val)
        y2 == Min(self.y2.val, other.y2.val)
        dx == IF x2 < x1 THEN x1 - x2 ELSE x2 - x1
        dy == IF y2 < y1 THEN y1 - y2 ELSE y2 - y1
    IN dx * dy

intersection(self, other) ==
    LET x1 == Max(self.x1.val, other.x1.val)
        y1 == Max(self.y1.val, other.y1.val)
        x2 == Min(self.x2.val, other.x2.val)
        y2 == Min(self.y2.val, other.y2.val)
    IN rectangular_area(x1, x2, y1, y2)

\* BBox.is_overlapping
is_overlapping_closed(self, other) ==
    IF truthy(self.xywhc) /\ truthy(other.xywhc)
    THEN /\ self.x1.val <= other.x2.val
         /\ self.y1.val <= other.y2.val
         /\ other.x1.val <= self.x2.val
         /\ other.y1.val <= self.y2.val
    ELSE FALSE

is_overlapping(self, other) ==
    IF truthy(self.xywhc) /\ truthy(other.xywhc)
    THEN /\ self.x1.val < other.x2.val
         /\ self.y1.val < other.y2.val
         /\ other.x1.val < self.x2.val
         /\ other.y1.val < self.y2.val
    ELSE FALSE

\* the min_area of BBox.niou
min_area_self(self, other) ==
    rectangular_area(self.x1.val, self.x2.val, self.y1.val, self.y2.val)

min_area(self, other) ==
    Min(rectangular_area(self.x1.val, self.x2.val, self.y1.val, self.y2.val),
        rectangular_area(other.x1.val, other.x2.val, other.y1.val, other.y2.val))

\* the divisor a classic IoU would use: the area of the union
union_area(self, other) ==
    rectangular_area(self.x1.val, self.x2.val, self.y1.val, self.y2.val)
    + rectangular_area(other.x1.val, other.x2.val, other.y1.val, other.y2.val)
    - intersection(self, other)

\* BBox.niou: the value returned, or the exception raised by the division
niou_iou(self, other) ==
    IF is_overlapping(self, other)
    THEN IF union_area(self, other) = 0
         THEN [exc |-> "ZeroDivisionError", val |-> py_None]
         ELSE [exc |-> "None",
               val |-> quotient(intersection(self, other), union_area(self, other))]
    ELSE [exc |-> "None", val |-> py_number(0)]

niou(self, other) ==
    IF is_overlapping(self, other)
    THEN IF min_area(self, other) = 0
         THEN [exc |-> "ZeroDivisionError", val |-> py_None]
         ELSE [exc |-> "None",
               val |-> quotient(intersection(self, other), min_area(self, other))]
    ELSE [exc |-> "None", val |-> py_number(0)]

\* A.is_overlapping(B)
IsOverlapping ==
    /\ pc = "idle"
    /\ op' = "is_overlapping"
    /\ out' = py_bool(is_overlapping(A, B))
    /\ err' = "None"
    /\ UNCHANGED <<A, B>>
    /\ UNCHANGED reduce_vars

\* A.intersection(B); arithmetic on the (None,) corners of an absent box
\* raises TypeError
Intersection ==
    /\ pc = "idle"
    /\ op' = "intersection"
    /\ IF A.x1.type = "float" /\ B.x1.type = "float"
       THEN /\ out' = py_number(intersection(A, B))
            /\ err' = "None"
       ELSE /\ out' = py_None
            /\ err' = "TypeError"
    /\ UNCHANGED <<A, B>>
    /\ UNCHANGED reduce_vars

\* A.niou(B)
Niou ==
    /\ pc = "idle"
    /\ op' = "niou"
    /\ out' = niou(A, B).val
    /\ err' = niou(A, B).exc
    /\ UNCHANGED <<A, B>>
    /\ UNCHANGED reduce_vars

----------------------------------------------------------------------------
\* Inputs and specifications.

ClassIds == (0 - 1)..MaxClasses

\* the rows a frame can hold: k values followed by a class number; the last
\* value is the confidence when k = 5
Rows(arities) ==
    {<<c>> : c \in (IF 1 \in arities THEN ClassIds ELSE {})}
    \cup (IF 0 \in arities THEN {<<>>} ELSE {})
    \cup {[j \in 1..k |-> IF j = k THEN c ELSE IF j = k - 1 THEN conf ELSE v] :
            k \in {a \in arities : a >= 2}, v \in 0..1, conf \in 0..MaxConf, c \in ClassIds}

RECURSIVE SeqsUpTo(_, _)
SeqsUpTo(S, n) ==
    IF n = 0 THEN {<<>>}
    ELSE LET shorter == SeqsUpTo(S, n - 1)
         IN shorter \cup {Append(s, e) : s \in {t \in shorter : Len(t) = n - 1}, e \in S}

\* every row has the six fields x, y, w, h, conf, class
WellFormedRows == Rows({6})
\* rows of any number of fields
AnyRows == Rows({0, 1, 5, 6, 7})

Evens == {v \in 0..GridMax : v % 2 = 0}

\* the predictions a box is built from: (cls, None) or (cls, [x, y, w, h, conf])
Preds(cls) ==
    {<<cls, py_None>>}
    \cup {<<cls, py_list(<<x, y, w, h, conf>>)>> :
            x \in 0..GridMax, y \in 0..GridMax, w \in Evens, h \in Evens,
            conf \in {0, GridMax}}

AbsentBox == BBox(<<0, py_None>>)

InitReduce(rows) ==
    /\ results \in SeqsUpTo(rows, MaxLen)
    /\ n_classes \in 0..MaxClasses
    /\ pc = "start"
    /\ preds_dict = <<>>
    /\ ret = NoReturn
    /\ exc = "None"
    /\ A = AbsentBox
    /\ B = AbsentBox
    /\ op = "none"
    /\ out = py_None
    /\ err = "None"

InitBBox ==
    /\ results = <<>>
    /\ n_classes = 0
    /\ pc = "idle"
    /\ preds_dict = <<>>
    /\ ret = NoReturn
    /\ exc = "None"
    /\ \E pa \in Preds(0), pb \in Preds(1) :
          /\ A = BBox(pa)
          /\ B = BBox(pb)
    /\ op = "none"
    /\ out = py_None
    /\ err = "None"

NextReduce == Partition \/ SelectBest
NextBBox == IsOverlapping \/ Intersection \/ Niou

\* preds_from_torch_results on frames of well-formed rows
Spec == InitReduce(WellFormedRows) /\ [][NextReduce]_vars
\* preds_from_torch_results on frames whose rows have any number of fields
SpecArity == InitReduce(AnyRows) /\ [][NextReduce]_vars
\* queries on a pair of boxes
SpecBBox == InitBBox /\ [][NextBBox]_vars

----------------------------------------------------------------------------
\* Properties of preds_from_torch_results.

Terminated == pc \in {"done", "raised"}
class_of(row) == row[Len(row)]
conf_of(row) == row[5]
AllClassIdsValid ==
    \A j \in 1..Len(results) : class_of(results[j]) \in 0..(n_classes - 1)
RowsOfClass(c) == {j \in 1..Len(results) : class_of(results[j]) = c}
value_at(c) == ret.items[c + 1][2]

\* C1: on rows whose class numbers all lie in [0, n_classes) the function
\* returns exactly n_classes entries, entry i is the pair (i, value) in
\* ascending order, and the value is None exactly when no row has class i.
C1_Entries ==
    (Terminated /\ AllClassIdsValid) =>
        /\ pc = "done"
        /\ ret.type = "list"
        /\ Len(ret.items) = n_classes
        /\ \A c \in 0..(n_classes - 1) :
              /\ ret.items[c + 1][1] = c
              /\ (value_at(c) = py_None) <=> (RowsOfClass(c) = {})

\* C1 case: two classes, one with a detection and one without
C1_Witness ==
    /\ pc = "done"
    /\ n_classes = 2
    /\ Len(results) = 2
    /\ RowsOfClass(0) = {}
    /\ RowsOfClass(1) = {1, 2}
    /\ value_at(0) = py_None
    /\ value_at(1) # py_None

\* the row of class c the claim selects: maximum confidence, last on ties
MaxConfOf(c) ==
    CHOOSE m \in {conf_of(results[j]) : j \in RowsOfClass(c)} :
        \A j \in RowsOfClass(c) : conf_of(results[j]) <= m
LastBest(c) ==
    CHOOSE j \in RowsOfClass(c) :
        /\ conf_of(results[j]) = MaxConfOf(c)
        /\ \A k \in RowsOfClass(c) : conf_of(results[k]) = MaxConfOf(c) => k <= j

\* C2: for every class with a detection the value returned is the unchanged
\* (x, y, w, h, conf) of a row of that class with the maximum confidence,
\* and among rows sharing that maximum it is the last one of the input.
C2_BestLast ==
    pc = "done" =>
        \A c \in 0..(n_classes - 1) :
            RowsOfClass(c) # {} =>
                value_at(c) = py_list(SubSeq(results[LastBest(c)], 1, 5))

\* C2 case: two rows of one class tie on confidence and differ in geometry
C2_Witness ==
    /\ pc = "done"
    /\ Len(results) = 2
    /\ n_classes >= 1
    /\ RowsOfClass(0) = {1, 2}
    /\ conf_of(results[1]) = conf_of(results[2])
    /\ results[1] # results[2]
    /\ value_at(0) = py_list(SubSeq(results[2], 1, 5))

\* C3: a row whose class number is outside [0, n_classes), at any position,
\* makes the function fail with an exception and return nothing.
C3_InvalidClassRaises ==
    (Terminated /\ ~AllClassIdsValid) =>
        /\ pc = "raised"
        /\ exc # "None"
        /\ ret = NoReturn

\* C3 case: a valid first row followed by a row of a class that is too large
C3_Witness ==
    /\ pc = "raised"
    /\ exc = "KeyError"
    /\ Len(results) = 2
    /\ n_classes >= 1
    /\ class_of(results[1]) \in 0..(n_classes - 1)
    /\ class_of(results[2]) >= n_classes
    /\ ret = NoReturn

\* C4: a row that does not have exactly six fields makes the function fail
\* (MalformedDetection) and return nothing, even when its last field is a
\* valid class number.
C4_MalformedRaises ==
    (Terminated /\ \E j \in 1..Len(results) : Len(results[j]) # 6) =>
        /\ pc = "raised"
        /\ ret = NoReturn

----------------------------------------------------------------------------
\* Properties of BBox.

present(b) == b.xywhc # py_None
\* twice the corners, from the prediction the box was built from
lo2_x(b) == 2 * b.xywhc.items[1] - b.xywhc.items[3]
hi2_x(b) == 2 * b.xywhc.items[1] + b.xywhc.items[3]
lo2_y(b) == 2 * b.xywhc.items[2] - b.xywhc.items[4]
hi2_y(b) == 2 * b.xywhc.items[2] + b.xywhc.items[4]
StrictOverlap(a, b) ==
    /\ lo2_x(a) < hi2_x(b)
    /\ lo2_y(a) < hi2_y(b)
    /\ lo2_x(b) < hi2_x(a)
    /\ lo2_y(b) < hi2_y(a)
area4(b) == (hi2_x(b) - lo2_x(b)) * (hi2_y(b) - lo2_y(b))

\* C5: is_overlapping is false when either box is absent, otherwise true
\* exactly when the four strict inequalities hold, and the same with the
\* two boxes swapped.
C5_Overlap ==
    op = "is_overlapping" =>
        /\ err = "None"
        /\ out = py_bool(present(A) /\ present(B) /\ StrictOverlap(A, B))
        /\ is_overlapping(B, A) = out.val

\* C5 case: two boxes of positive area that share only an edge
C5_Witness ==
    /\ op = "is_overlapping"
    /\ present(A) /\ present(B)
    /\ area4(A) > 0 /\ area4(B) > 0
    /\ hi2_x(A) = lo2_x(B)
    /\ lo2_y(A) < hi2_y(B) /\ lo2_y(B) < hi2_y(A)
    /\ out = py_bool(FALSE)

\* C6: niou returns a number without raising for every pair of boxes, each
\* absent or present with x, y, w, h in [0, 1] (w or h may be 0), and
\* returns 0 when a box is absent or the boxes do not overlap.
C6_NiouTotal ==
    op = "niou" =>
        /\ err = "None"
        /\ out.type = "float"
        /\ (~(present(A) /\ present(B) /\ StrictOverlap(A, B))) => out = py_number(0)

StrictlyApartX(a, b) == hi2_x(a) < lo2_x(b) \/ hi2_x(b) < lo2_x(a)
StrictlyApartY(a, b) == hi2_y(a) < lo2_y(b) \/ hi2_y(b) < lo2_y(a)

\* C7 as stated: for present boxes that do not overlap, intersection returns
\* zero or a negative value, also when they are apart on both axes at once.
C7_NonPositive ==
    (op = "intersection" /\ present(A) /\ present(B) /\ ~StrictOverlap(A, B)) =>
        /\ err = "None"
        /\ out.num <= 0

\* C7 amended: for present boxes that do not overlap, intersection returns
\* zero or a negative value unless the boxes are strictly apart on both the
\* x axis and the y axis, and then it returns a positive value.
C7_SignOfIntersection ==
    (op = "intersection" /\ present(A) /\ present(B) /\ ~StrictOverlap(A, B)) =>
        /\ err = "None"
        /\ IF StrictlyApartX(A, B) /\ StrictlyApartY(A, B)
           THEN out.num > 0
           ELSE out.num <= 0

\* C7 case: boxes apart on the x axis only, with a negative result
C7_Witness ==
    /\ op = "intersection"
    /\ present(A) /\ present(B)
    /\ StrictlyApartX(A, B)
    /\ lo2_y(A) < hi2_y(B) /\ lo2_y(B) < hi2_y(A)
    /\ out.num < 0

\* C8: for present boxes, A.niou(B) and B.niou(A) have the same outcome.
C8_NiouSymmetric ==
    (op = "niou" /\ present(A) /\ present(B)) =>
        niou(B, A) = [exc |-> err, val |-> out]

\* C8 case: overlapping boxes of different areas, neither inside the other
C8_Witness ==
    /\ op = "niou"
    /\ present(A) /\ present(B)
    /\ StrictOverlap(A, B)
    /\ area4(A) > area4(B) /\ area4(B) > 0
    /\ lo2_x(B) < lo2_x(A)
    /\ err = "None"
    /\ out.num > 0 /\ out.num < out.den

Contains(a, b) ==
    /\ lo2_x(a) <= lo2_x(b)
    /\ lo2_y(a) <= lo2_y(b)
    /\ hi2_x(b) <= hi2_x(a)
    /\ hi2_y(b) <= hi2_y(a)

\* C9: when B has positive area and A fully contains it, A overlaps B and
\* A.niou(B) is exactly 1, whatever the ratio of the two sizes.
C9_ContainmentIsOne ==
    (/\ op = "niou"
     /\ present(A) /\ present(B)
     /\ B.xywhc.items[3] > 0 /\ B.xywhc.items[4] > 0
     /\ Contains(A, B)) =>
        /\ is_overlapping(A, B)
        /\ err = "None"
        /\ out = py_number(1)

\* C9 case: A is four times the size of the B it contains
C9_Witness ==
    /\ op = "niou"
    /\ present(A) /\ present(B)
    /\ Contains(A, B)
    /\ area4(B) > 0
    /\ area4(A) = 4 * area4(B)
    /\ out = py_number(1)

Fields(b) == {b.x, b.y, b.w, b.h, b.conf, b.x1, b.x2, b.y1, b.y2}

\* C10: a box built from (cls, None) is not present and each of x, y, w, h,
\* conf, x1, x2, y1, y2 is None; a box built from a detection is present and
\* has x1 = x - w/2 <= x2 = x + w/2 and y1 = y - h/2 <= y2 = y + h/2.
C10_Construction ==
    \A b \in {A, B} :
        IF b.xywhc = py_None
        THEN /\ ~bool(b)
             /\ Fields(b) = {py_None}
        ELSE /\ bool(b)
             /\ 2 * b.x1.val = lo2_x(b) /\ 2 * b.x2.val = hi2_x(b)
             /\ 2 * b.y1.val = lo2_y(b) /\ 2 * b.y2.val = hi2_y(b)
             /\ b.x1.val <= b.x2.val /\ b.y1.val <= b.y2.val

====
